---------------------------- MODULE Spec2Model ----------------------------
(***************************************************************************)
(* QUORATE: the rate-adaptive NationStates API client                      *)
(* (internal/ns-client/ns-client.go), the candidate filter and the trigger *)
(* matcher of main (v1.0.4).                                               *)
(*                                                                         *)
(* Spec       the API client: makeAPIRequest and the typed queries         *)
(* SpecRank   the candidate filter loop and the sort of main               *)
(* SpecMatch  the trigger matching loop of main                            *)
(* SpecRun    main from the approvals lookup to the files it writes        *)
(***************************************************************************)
EXTENDS Integers, Sequences, FiniteSets, TLC

VARIABLES
    userAgent,      \* ns-client.go:41  package variable userAgent
    caller,         \* the typed query function that is running ("none" when idle)
    qpc,            \* position inside the typed query function
    data,           \* the url.Values of the query being made
    epc,            \* position inside makeAPIRequest
    reqBody,        \* state of req.Body, the strings.Reader built once at line 63
    resp,           \* the *http.Response under inspection
    ret,            \* what makeAPIRequest returned to its caller
    wire,           \* log: every request httpClient.Do was asked to send
    sleeps,         \* log: every time.Sleep of the current makeAPIRequest call
    qret,           \* what the typed query function returned
    approvalsIn,    \* main: the approvals list being walked by the filter loop
    ai,             \* main: index of the next approval
    maxEndoCount,   \* main: flag -endos
    isMinor,        \* main: flag -minor
    lastInfo,       \* main: region and regionInfo of the last filter iteration
    rpc,            \* main: position in the filter loop
    lookups,        \* log: the regions GetRegioninfo was called with
    err,            \* main: err after the last query or file operation
    queries,        \* log: the typed queries main has called
    regions,        \* main: regionsList.Regions, the parsed dump
    hittable,       \* main: []Hit
    minimumTrigger, \* main: flag -mintrig
    hitIndex,       \* main: cursor into hittable
    updateTimes,    \* main: map[int64]string
    ri,             \* main: number of dump records the range loop has consumed
    mpc,            \* main: position in the matching pass
    files,          \* trigger_list.txt and raidFile.txt as written
    probes          \* log: turns of the probe loop (lines 283-296) in the last match

clientVars == <<userAgent, caller, qpc, data, epc, reqBody, resp, ret, wire, sleeps, qret>>
rankVars   == <<approvalsIn, ai, maxEndoCount, isMinor, lastInfo, rpc, lookups, err, queries>>
matchVars  == <<regions, hittable, minimumTrigger, hitIndex, updateTimes, ri, mpc, files,
               probes>>
vars       == <<clientVars, rankVars, matchVars>>

-----------------------------------------------------------------------------
(* Bounds of the model *)

MaxAttempts  == 3   \* httpClient.Do calls explored inside one makeAPIRequest
MaxRemaining == 8   \* RateLimit-Remaining values 0..MaxRemaining
MaxReset     == 3   \* RateLimit-Reset values 0..MaxReset
MaxRetry     == 1   \* Retry-After values 0..MaxRetry

(* Program constants *)
LowWatermark   == 7     \* remaining <= 7
StatusOK       == 200   \* http.StatusOK
StatusTooMany  == 429   \* http.StatusTooManyRequests

\* The statuses explored that are neither 200 nor 429
OtherStatuses  == {500}

-----------------------------------------------------------------------------
(* strconv.Itoa / strconv.Atoi on decimal strings, a string being a        *)
(* sequence of one-character strings.                                      *)

Digits == <<"0", "1", "2", "3", "4", "5", "6", "7", "8", "9">>

IsDigit(c) == \E d \in 1..10 : Digits[d] = c

DigitVal(c) == (CHOOSE d \in 1..10 : Digits[d] = c) - 1

RECURSIVE Itoa(_)
Itoa(n) == IF n < 10 THEN <<Digits[n + 1]>>
           ELSE Itoa(n \div 10) \o <<Digits[(n % 10) + 1]>>

RECURSIVE ParseDigits(_, _)
ParseDigits(s, acc) ==
    IF s = <<>> THEN acc
    ELSE ParseDigits(Tail(s), acc * 10 + DigitVal(Head(s)))

\* strconv.Atoi with its error discarded (intX, _ := strconv.Atoi(h)): the
\* value is 0 when the header is missing ("") or is not a decimal number.
Atoi(s) ==
    IF s = <<>> \/ (\E i \in 1..Len(s) : ~IsDigit(s[i])) THEN 0
    ELSE ParseDigits(s, 0)

Missing == <<>>         \* Header.Get of an absent header is ""
Junk    == <<"x">>      \* a header value that is not a number

RemainingHeaders == {Missing, Junk} \cup {Itoa(n) : n \in 0..MaxRemaining}
ResetHeaders     == {Missing} \cup {Itoa(n) : n \in 0..MaxReset}
RetryHeaders     == {Missing} \cup {Itoa(n) : n \in 0..MaxRetry}


\* The reduced header sets used while the typed queries are explored: one
\* value that is read as 0, one at or below the watermark, one above it.
FewRemaining == {Missing, Itoa(1), Itoa(LowWatermark + 1)}
FewReset     == {Itoa(MaxReset)}
FewRetry     == {Itoa(MaxRetry)}

-----------------------------------------------------------------------------
(* The three response shapes of xml-structs.go, as decoded values *)

MaxApprovalsLen == 2    \* characters of one APPROVALS string
MaxEndos        == 2    \* SCORE values 0..MaxEndos
MaxStamp        == 2    \* LASTMINORUPDATE values 1..MaxStamp
MajorLag        == 10   \* seconds from a region's minor update to its major update

ProposalIds    == {"p1", "p2"}
ApprovalChars  == {"a", ":"}
Endorsers      == {"n1", "n2"}
RankedNations  == {"n1", "n2", "n3"}
\* Region names as the API and the dump spell them (a string is a sequence
\* of characters), in the order the dump lists them.
DumpNames      == << <<"A", " ", "b">>, <<"c">>, <<"D">> >>
RegionNames    == {DumpNames[1], DumpNames[2]}
TagLists       == {<<>>, <<"Password">>, <<"Founderless", "Password">>,
                   <<"password">>}

SeqsUpTo(S, n) == UNION {[1..k -> S] : k \in 0..n}

ApprovalStrings == SeqsUpTo(ApprovalChars, MaxApprovalsLen)

\* type Proposal
Proposal == [Id : ProposalIds, Approvals : ApprovalStrings]

\* type WaProposalsOuter (Inner.Proposals): a proposal is listed once.
WaProposalsOuter ==
    {l \in SeqsUpTo(Proposal, Cardinality(ProposalIds)) :
        \A i, j \in 1..Len(l) : l[i].Id = l[j].Id => i = j}

\* type NationEndos
NationEndos == [Name : RankedNations, Endos : 0..MaxEndos]

\* type NationList: a census ranking lists a nation once, best score first.
NationList ==
    {l \in SeqsUpTo(NationEndos, Cardinality(RankedNations)) :
        /\ \A i, j \in 1..Len(l) : l[i].Name = l[j].Name => i = j
        /\ \A i, j \in 1..Len(l) : i < j => l[i].Endos >= l[j].Endos}

\* type RegionOuter (a region's major update taken MajorLag after its
\* minor update)
RegionOuter ==
    {[Nations |-> l, Tags |-> tags, LastMajor |-> t + MajorLag, LastMinor |-> t] :
        l \in NationList, tags \in TagLists, t \in 1..MaxStamp}

\* type NationRegion
NationRegion == RegionNames

\* A response body: one that io.ReadAll fails on, one that xml.Unmarshal
\* rejects, or the document it decodes to.
ReadFails   == [kind |-> "readfails"]
Undecodable == [kind |-> "undecodable"]
Decoded(v)  == [kind |-> "xml", doc |-> v]
NoBody      == [kind |-> "unread"]

\* The documents the type parameter T of makeAPIRequest[T] admits.
DocsOf(fn) ==
    CASE fn = "GetProposalApprovals" -> WaProposalsOuter
      [] fn = "GetRegioninfo"        -> RegionOuter
      [] fn = "GetNationRegion"      -> NationRegion

BodiesOf(fn) == {ReadFails, Undecodable} \cup {Decoded(v) : v \in DocsOf(fn)}

\* What the server can answer to one request.  The fields a branch never
\* reads are fixed (Retry-After outside 429, the budget headers and the body
\* on 429, the body outside 200).
Responses(fn, Rem, Rst, Rty) ==
    [status : {StatusTooMany}, retryAfter : Rty, remaining : {Missing},
     reset : {Missing}, body : {NoBody}]
    \cup
    [status : OtherStatuses, retryAfter : {Missing}, remaining : Rem,
     reset : Rst, body : {NoBody}]
    \cup
    [status : {StatusOK}, retryAfter : {Missing}, remaining : Rem,
     reset : Rst, body : BodiesOf(fn)]

NoResp == [status |-> 0, retryAfter |-> Missing, remaining |-> Missing,
           reset |-> Missing, body |-> NoBody]

-----------------------------------------------------------------------------
(* makeAPIRequest, ns-client.go:56-105 *)

NoData == [q |-> "", wa |-> "", region |-> "", nation |-> "", scale |-> ""]
Idle   == [fn |-> "none", arg |-> <<>>]

\* A Go (value, error) pair.
NoRet        == [kind |-> "none", val |-> "", err |-> ""]
RetErr(z, e) == [kind |-> "err", val |-> z, err |-> e]
RetOk(v)     == [kind |-> "ok", val |-> v, err |-> ""]

\* var zero T
ZeroOf(fn) ==
    CASE fn = "GetProposalApprovals" -> <<>>
      [] fn = "GetRegioninfo"        -> [Nations |-> <<>>, Tags |-> <<>>,
                                         LastMajor |-> 0, LastMinor |-> 0]
      [] fn = "GetNationRegion"      -> <<>>

\* ExecEnter without the user-agent check of lines 59-61.
ExecEnterUnchecked ==
    /\ epc = "call"
    /\ epc' = "loop"
    /\ reqBody' = "unread"
    /\ sleeps' = <<>>
    /\ resp' = NoResp
    /\ UNCHANGED <<userAgent, caller, qpc, data, ret, wire, qret>>
    /\ UNCHANGED <<rankVars, matchVars>>

\* Lines 56-69: the user-agent check, then http.NewRequest with
\* strings.NewReader(data.Encode()) as the body and the two headers.
ExecEnter ==
    /\ epc = "call"
    /\ IF userAgent = <<>>
       THEN /\ epc' = "returned"
            /\ ret' = RetErr(ZeroOf(caller.fn), "no user agent set")
            /\ UNCHANGED reqBody
       ELSE /\ epc' = "loop"
            /\ reqBody' = "unread"
            /\ UNCHANGED ret
    /\ sleeps' = <<>>
    /\ resp' = NoResp
    /\ UNCHANGED <<userAgent, caller, qpc, data, wire, qret>>
    /\ UNCHANGED <<rankVars, matchVars>>

\* The request as httpClient.Do sends it.
Sent(body) == [data |-> data, userAgent |-> userAgent, body |-> body]

\* The server answers 429 to at most MaxAttempts - 1 attempts in a row.
MayAnswer(r) == r.status = StatusTooMany => Len(sleeps) + 1 < MaxAttempts

\* Line 72, httpClient.Do(req), the first time round the loop: the request
\* goes out with its form body, and the body reader is left at its end.
DoFirst(Rem, Rst, Rty) ==
    /\ epc = "loop"
    /\ reqBody = "unread"
    /\ wire' = Append(wire, Sent("form"))
    /\ reqBody' = "consumed"
    /\ \/ /\ epc' = "returned"                  \* lines 73-75: transport error
          /\ ret' = RetErr(ZeroOf(caller.fn), "transport")
          /\ UNCHANGED resp
       \/ \E r \in Responses(caller.fn, Rem, Rst, Rty) :
            /\ MayAnswer(r)
            /\ epc' = "got"
            /\ resp' = r
            /\ UNCHANGED ret
    /\ UNCHANGED <<userAgent, caller, qpc, data, sleeps, qret>>
    /\ UNCHANGED <<rankVars, matchVars>>

\* The bodies a second Do of the same *http.Request can put on the wire.
\* req.Body is the reader the first attempt consumed.  net/http rewinds a
\* body (req.GetBody) only when it retries on a reused connection on which
\* nothing was written; otherwise the request goes out with an empty body
\* (HTTP/2) or fails on its Content-Length before anything is sent
\* ("http: ContentLength=N with Body length 0", HTTP/1.x).  Which of these
\* happens depends on the connection, so it is a choice.
ResentBodies == {"form", "empty"}

\* Line 72 again, after a 429.
DoAgain(Rem, Rst, Rty) ==
    /\ epc = "loop"
    /\ reqBody = "consumed"
    /\ UNCHANGED reqBody
    /\ \E b \in ResentBodies :
        /\ wire' = Append(wire, Sent(b))
        /\ \/ /\ epc' = "returned"              \* lines 73-75: transport error
              /\ ret' = RetErr(ZeroOf(caller.fn), "transport")
              /\ UNCHANGED resp
           \/ \E r \in Responses(caller.fn, Rem, Rst, Rty) :
                /\ MayAnswer(r)
                /\ epc' = "got"
                /\ resp' = r
                /\ UNCHANGED ret
    /\ UNCHANGED <<userAgent, caller, qpc, data, sleeps, qret>>
    /\ UNCHANGED <<rankVars, matchVars>>

\* Line 80: intRetry, _ := strconv.Atoi(retryAfter)
RetrySecs(r) == Atoi(r.retryAfter)

\* Lines 77-81: 429, sleep Retry-After seconds and go round the loop.
Handle429 ==
    /\ epc = "got"
    /\ resp.status = StatusTooMany
    /\ sleeps' = Append(sleeps, [why |-> "retry", secs |-> RetrySecs(resp)])
    /\ epc' = "loop"
    /\ UNCHANGED <<userAgent, caller, qpc, data, reqBody, resp, ret, wire, qret>>
    /\ UNCHANGED <<rankVars, matchVars>>

\* Line 83: remaining, _ := strconv.Atoi(Header.Get("RateLimit-Remaining"))
RemainingOf(r) == Atoi(r.remaining)

\* Line 85: reset, _ := strconv.Atoi(Header.Get("RateLimit-Reset"))
ResetOf(r) == Atoi(r.reset)

\* Line 83: the low-watermark test.
NearLimit(remaining) == remaining <= LowWatermark

\* Line 86: reset/remaining + 1, Go's int division (operands are >= 0 here).
SlowdownSecs(reset, remaining) == (reset \div remaining) + 1

\* Lines 88-102: status check, io.ReadAll, xml.Unmarshal.
Outcome(fn, r) ==
    IF r.status # StatusOK THEN RetErr(ZeroOf(fn), "bad status")
    ELSE IF r.body.kind = "readfails" THEN RetErr(ZeroOf(fn), "read")
    ELSE IF r.body.kind = "undecodable" THEN RetErr(ZeroOf(fn), "decode")
    ELSE RetOk(r.body.doc)

\* Line 86 with remaining = 0 is an integer division by zero: Go panics
\* and the process ends.
DividesByZero(remaining) == remaining = 0

\* Lines 82-103: any other status.
HandleOther ==
    /\ epc = "got"
    /\ resp.status # StatusTooMany
    /\ LET remaining == RemainingOf(resp)
           reset     == ResetOf(resp)
       IN IF NearLimit(remaining) /\ DividesByZero(remaining)
          THEN /\ epc' = "panicked"
               /\ UNCHANGED <<sleeps, ret>>
          ELSE /\ sleeps' = IF NearLimit(remaining)
                            THEN Append(sleeps, [why  |-> "slowdown",
                                                 secs |-> SlowdownSecs(reset, remaining)])
                            ELSE sleeps
               /\ epc' = "returned"
               /\ ret' = Outcome(caller.fn, resp)
    /\ UNCHANGED <<userAgent, caller, qpc, data, reqBody, resp, wire, qret>>
    /\ UNCHANGED <<rankVars, matchVars>>

-----------------------------------------------------------------------------
(* SetUserAgent and the typed queries, ns-client.go:52-54, 107-177 *)

MainNations == {"testlandia"}

\* Lines 52-54: the escaped string always has the fixed prefix, so it is
\* never empty, whatever mainNation is.
SetUserAgent ==
    /\ caller = Idle
    /\ qpc = "idle"
    /\ \E mainNation \in MainNations :
         userAgent' = <<"quorate v1.0.0 developed by nation=Notanam, in use by nation=",
                        mainNation>>
    /\ UNCHANGED <<caller, qpc, data, epc, reqBody, resp, ret, wire, sleeps, qret>>
    /\ UNCHANGED <<rankVars, matchVars>>

\* Split that cuts at the first separator only.
SplitOnce(s) ==
    LET seps == {i \in 1..Len(s) : s[i] = ":"}
    IN IF seps = {} THEN <<s>>
       ELSE LET i == CHOOSE j \in seps : \A k \in seps : j <= k
            IN <<SubSeq(s, 1, i - 1), SubSeq(s, i + 1, Len(s))>>

\* strings.Split(s, ":")
RECURSIVE Split(_)
Split(s) ==
    LET seps == {i \in 1..Len(s) : s[i] = ":"}
    IN IF seps = {} THEN <<s>>
       ELSE LET i == CHOOSE j \in seps : \A k \in seps : j <= k
            IN <<SubSeq(s, 1, i - 1)>> \o Split(SubSeq(s, i + 1, Len(s)))

\* Lines 117-121 / 129-133: the first proposal of the list with the id.
Matching(proposals, id) == {i \in 1..Len(proposals) : proposals[i].Id = id}
FirstMatch(proposals, id) ==
    CHOOSE i \in Matching(proposals, id) : \A k \in Matching(proposals, id) : i <= k

\* Lines 107-112: the query under wa=2.
CallGetProposalApprovals ==
    /\ caller = Idle
    /\ qpc = "idle"
    /\ \E id \in ProposalIds : caller' = [fn |-> "GetProposalApprovals", arg |-> id]
    /\ data' = [NoData EXCEPT !.wa = "2", !.q = "proposals"]
    /\ epc' = "call"
    /\ qpc' = "first"
    /\ UNCHANGED <<userAgent, reqBody, resp, ret, wire, sleeps, qret>>
    /\ UNCHANGED <<rankVars, matchVars>>

\* Lines 113-124: after the first query.
ProposalsFirst ==
    /\ caller.fn = "GetProposalApprovals"
    /\ qpc = "first"
    /\ epc = "returned"
    /\ IF ret.kind = "err"
       THEN /\ qret' = RetErr(<<>>, ret.err)
            /\ qpc' = "done"
            /\ UNCHANGED <<data, epc, ret>>
       ELSE IF Matching(ret.val, caller.arg) # {}
       THEN /\ qret' = RetOk(Split(ret.val[FirstMatch(ret.val, caller.arg)].Approvals))
            /\ qpc' = "done"
            /\ UNCHANGED <<data, epc, ret>>
       ELSE /\ data' = [data EXCEPT !.wa = "1"]
            /\ epc' = "call"
            /\ ret' = NoRet
            /\ qpc' = "second"
            /\ UNCHANGED qret
    /\ UNCHANGED <<userAgent, caller, reqBody, resp, wire, sleeps>>
    /\ UNCHANGED <<rankVars, matchVars>>

\* Lines 125-135: after the second query.
ProposalsSecond ==
    /\ caller.fn = "GetProposalApprovals"
    /\ qpc = "second"
    /\ epc = "returned"
    /\ qret' = IF ret.kind = "err" THEN RetErr(<<>>, ret.err)
               ELSE IF Matching(ret.val, caller.arg) # {}
               THEN RetOk(Split(ret.val[FirstMatch(ret.val, caller.arg)].Approvals))
               ELSE RetErr(<<>>, "proposal not found")
    /\ qpc' = "done"
    /\ UNCHANGED <<userAgent, caller, data, epc, reqBody, resp, ret, wire, sleeps>>
    /\ UNCHANGED <<rankVars, matchVars>>

\* var zero RegionInfo
ZeroRegionInfo == [DelEndos |-> 0, SecondEndos |-> 0, SecondNation |-> "",
                   Password |-> FALSE, LastMajor |-> 0, LastMinor |-> 0]

\* slices.Contains(xmlRegion.Tags.TagArray, "Password")
HasPasswordTag(tags) == \E i \in 1..Len(tags) : tags[i] = "Password"

\* RegionInfoOf with SecondEndos read from rank 1 instead of rank 2.
RegionInfoOfRankSlip(xmlRegion) ==
    LET endoRanks == xmlRegion.Nations
    IN IF Len(endoRanks) < 2
       THEN RetErr(ZeroRegionInfo, "how tf was this even triggered")
       ELSE RetOk([DelEndos     |-> endoRanks[1].Endos,
                   SecondEndos  |-> endoRanks[1].Endos,
                   SecondNation |-> endoRanks[2].Name,
                   Password     |-> HasPasswordTag(xmlRegion.Tags),
                   LastMajor    |-> xmlRegion.LastMajor,
                   LastMinor    |-> xmlRegion.LastMinor])

\* Lines 151-163: RegionInfo from the decoded document.
RegionInfoOf(xmlRegion) ==
    LET endoRanks == xmlRegion.Nations
    IN IF Len(endoRanks) < 2
       THEN RetErr(ZeroRegionInfo, "how tf was this even triggered")
       ELSE RetOk([DelEndos     |-> endoRanks[1].Endos,
                   SecondEndos  |-> endoRanks[2].Endos,
                   SecondNation |-> endoRanks[2].Name,
                   Password     |-> HasPasswordTag(xmlRegion.Tags),
                   LastMajor    |-> xmlRegion.LastMajor,
                   LastMinor    |-> xmlRegion.LastMinor])

\* Lines 138-146
CallGetRegioninfo ==
    /\ caller = Idle
    /\ qpc = "idle"
    /\ \E region \in RegionNames :
         /\ caller' = [fn |-> "GetRegioninfo", arg |-> region]
         /\ data' = [NoData EXCEPT !.region = region, !.scale = "66",
                       !.q = "censusranks+tags+lastmajorupdate+lastminorupdate"]
    /\ epc' = "call"
    /\ qpc' = "first"
    /\ UNCHANGED <<userAgent, reqBody, resp, ret, wire, sleeps, qret>>
    /\ UNCHANGED <<rankVars, matchVars>>

\* Lines 147-163
RegioninfoReturn ==
    /\ caller.fn = "GetRegioninfo"
    /\ qpc = "first"
    /\ epc = "returned"
    /\ qret' = IF ret.kind = "err" THEN RetErr(ZeroRegionInfo, ret.err)
               ELSE RegionInfoOf(ret.val)
    /\ qpc' = "done"
    /\ UNCHANGED <<userAgent, caller, data, epc, reqBody, resp, ret, wire, sleeps>>
    /\ UNCHANGED <<rankVars, matchVars>>

\* Lines 166-171
CallGetNationRegion ==
    /\ caller = Idle
    /\ qpc = "idle"
    /\ \E nation \in Endorsers :
         /\ caller' = [fn |-> "GetNationRegion", arg |-> nation]
         /\ data' = [NoData EXCEPT !.nation = nation, !.q = "region"]
    /\ epc' = "call"
    /\ qpc' = "first"
    /\ UNCHANGED <<userAgent, reqBody, resp, ret, wire, sleeps, qret>>
    /\ UNCHANGED <<rankVars, matchVars>>

\* Lines 172-176
NationRegionReturn ==
    /\ caller.fn = "GetNationRegion"
    /\ qpc = "first"
    /\ epc = "returned"
    /\ qret' = IF ret.kind = "err" THEN RetErr(<<>>, ret.err) ELSE RetOk(ret.val)
    /\ qpc' = "done"
    /\ UNCHANGED <<userAgent, caller, data, epc, reqBody, resp, ret, wire, sleeps>>
    /\ UNCHANGED <<rankVars, matchVars>>

-----------------------------------------------------------------------------
(* main, the candidate filter loop: part_000:180-216 *)

MaxEndoFlag  == 2   \* -endos values 1..MaxEndoFlag

\* type Hit
Hit(name, delegate, second, deltip, time) ==
    [Name |-> name, Delegate |-> delegate, SecondNation |-> second,
     IsDeltip |-> deltip, UpdateTime |-> time,
     TriggerRegion |-> <<>>, TriggerTime |-> 0]

\* strings.ToLower on the characters the names use
ToLower(c) ==
    CASE c = "A" -> "a"
      [] c = "B" -> "b"
      [] c = "D" -> "d"
      [] OTHER   -> c

\* Line 196 / 259: strings.Replace(strings.ToLower(name), " ", "_", -1)
Canon(name) ==
    [i \in 1..Len(name) |-> IF ToLower(name[i]) = " " THEN "_" ELSE ToLower(name[i])]

\* What GetRegioninfo can return on success (a region's major update
\* taken MajorLag after its minor update).
RegionInfos ==
    {[DelEndos |-> d, SecondEndos |-> r, SecondNation |-> "n3", Password |-> p,
      LastMajor |-> t + MajorLag, LastMinor |-> t] :
        d \in 0..MaxEndos, r \in 0..MaxEndos, p \in BOOLEAN, t \in 1..MaxStamp}

\* Lines 197-202
ApiUpdateTime(regionInfo, minor) ==
    IF minor THEN regionInfo.LastMinor ELSE regionInfo.LastMajor

\* Classify with <= for < in the direct-hit test.
ClassifyOffByOne(regionInfo, max) ==
    IF regionInfo.Password THEN "password"
    ELSE IF regionInfo.DelEndos <= max THEN "direct"
    ELSE IF regionInfo.DelEndos < regionInfo.SecondEndos + max THEN "deltip"
    ELSE "excluded"

\* Lines 193-214: what the loop body does with one regionInfo.
Classify(regionInfo, max) ==
    IF regionInfo.Password THEN "password"
    ELSE IF regionInfo.DelEndos < max THEN "direct"
    ELSE IF regionInfo.DelEndos < regionInfo.SecondEndos + max THEN "deltip"
    ELSE "excluded"

\* Lines 205-206 / 209-211: hittable after the loop body.
Filtered(hits, region, approval, regionInfo, max, minor) ==
    LET class == Classify(regionInfo, max)
        time  == ApiUpdateTime(regionInfo, minor)
    IN CASE class = "direct" ->
              Append(hits, Hit(Canon(region), approval, "", FALSE, time))
         [] class = "deltip" ->
              Append(hits, Hit(Canon(region), approval, regionInfo.SecondNation, TRUE, time))
         [] OTHER -> hits

\* Line 173: what GetProposalApprovals hands to main, strings.Split's
\* result (never empty), an endorser being listed once.
Approvals ==
    {a \in SeqsUpTo(Endorsers, Cardinality(Endorsers)) :
        /\ Len(a) >= 1
        /\ \A i, j \in 1..Len(a) : a[i] = a[j] => i = j}

\* FilterStep with a failed GetRegioninfo skipping the endorser (continue)
\* where the code has log.Fatal.
FilterStepSkips(Infos) ==
    /\ rpc = "filter"
    /\ ai < Len(approvalsIn)
    /\ LET approval == approvalsIn[ai + 1]
       IN \/ /\ queries' = Append(queries, "GetNationRegion")
             /\ err' = "GetNationRegion"
             /\ rpc' = "fatal"
             /\ UNCHANGED <<ai, lastInfo, lookups, hittable>>
          \/ \E region \in RegionNames :
               /\ queries' = queries \o <<"GetNationRegion", "GetRegioninfo">>
               /\ lookups' = Append(lookups, region)
               /\ \/ /\ err' = "GetRegioninfo"
                     /\ ai' = ai + 1
                     /\ UNCHANGED <<rpc, lastInfo, hittable>>
                  \/ \E regionInfo \in Infos :
                       /\ lastInfo' = [region |-> region, info |-> regionInfo]
                       /\ hittable' = Filtered(hittable, region, approval, regionInfo,
                                               maxEndoCount, isMinor)
                       /\ ai' = ai + 1
                       /\ err' = "nil"
                       /\ UNCHANGED rpc
    /\ UNCHANGED <<approvalsIn, maxEndoCount, isMinor>>
    /\ UNCHANGED <<regions, minimumTrigger, hitIndex, updateTimes, ri, mpc, files, probes>>
    /\ UNCHANGED clientVars

\* Lines 181-216, one iteration: the two lookups (each answers or fails,
\* and a failure is log.Fatal), then the classification.  Infos is the set
\* of answers GetRegioninfo may give.
FilterStep(Infos) ==
    /\ rpc = "filter"
    /\ ai < Len(approvalsIn)
    /\ LET approval == approvalsIn[ai + 1]
       IN \/ /\ queries' = Append(queries, "GetNationRegion")
             /\ err' = "GetNationRegion"          \* lines 184-186
             /\ rpc' = "fatal"
             /\ UNCHANGED <<ai, lastInfo, lookups, hittable>>
          \/ \E region \in RegionNames :
               /\ queries' = queries \o <<"GetNationRegion", "GetRegioninfo">>
               /\ lookups' = Append(lookups, region)
               /\ \/ /\ err' = "GetRegioninfo"  \* lines 189-191
                     /\ rpc' = "fatal"
                     /\ UNCHANGED <<ai, lastInfo, hittable>>
                  \/ \E regionInfo \in Infos :
                       /\ lastInfo' = [region |-> region, info |-> regionInfo]
                       /\ hittable' = Filtered(hittable, region, approval, regionInfo,
                                               maxEndoCount, isMinor)
                       /\ ai' = ai + 1
                       /\ err' = "nil"
                       /\ UNCHANGED rpc
    /\ UNCHANGED <<approvalsIn, maxEndoCount, isMinor>>
    /\ UNCHANGED <<regions, minimumTrigger, hitIndex, updateTimes, ri, mpc, files, probes>>
    /\ UNCHANGED clientVars

\* Line 216: the range over approvals is exhausted.
FilterDone ==
    /\ rpc = "filter"
    /\ ai = Len(approvalsIn)
    /\ rpc' = "filtered"
    /\ UNCHANGED <<approvalsIn, ai, maxEndoCount, isMinor, lastInfo, lookups, err, queries>>
    /\ UNCHANGED <<matchVars, clientVars>>

\* Lines 172-176: the approvals lookup; a failure is log.Fatal.
GetApprovals ==
    /\ rpc = "start"
    /\ queries' = Append(queries, "GetProposalApprovals")
    /\ \/ /\ err' = "GetProposalApprovals"
          /\ rpc' = "fatal"
          /\ UNCHANGED approvalsIn
       \/ /\ approvalsIn' \in Approvals
          /\ err' = "nil"
          /\ rpc' = "filter"
    /\ UNCHANGED <<ai, maxEndoCount, isMinor, lastInfo, lookups>>
    /\ UNCHANGED <<matchVars, clientVars>>

-----------------------------------------------------------------------------
(* main, the sort step: part_000:224-229 *)

\* Lines 226-228: the less function handed to sort.Slice.
Less(a, b) == a.UpdateTime < b.UpdateTime

Perms(n) == {p \in [1..n -> 1..n] : \A i, j \in 1..n : p[i] = p[j] => i = j}

\* sort.Slice: the slice ends up ordered by less; the order of elements
\* that less does not separate is whatever the library's quicksort leaves
\* (insertion sort up to 12 elements, partitioning around a pivot above
\* that), so every ordered arrangement is a possible result.
SortSlice(hits) ==
    {[i \in 1..Len(hits) |-> hits[p[i]]] :
        p \in {q \in Perms(Len(hits)) :
                 \A i, j \in 1..Len(hits) : i < j => ~Less(hits[q[j]], hits[q[i]])}}

\* Lines 224-229
SortStep ==
    /\ rpc = "filtered"
    /\ hittable' \in SortSlice(hittable)
    /\ rpc' = "sorted"
    /\ UNCHANGED <<approvalsIn, ai, maxEndoCount, isMinor, lastInfo, lookups, err, queries>>
    /\ UNCHANGED <<regions, minimumTrigger, hitIndex, updateTimes, ri, mpc, files, probes>>
    /\ UNCHANGED clientVars

-----------------------------------------------------------------------------
(* main, the trigger matching pass (v1.0.4): part_000:247-298 *)

MaxTime    == 2     \* dump timestamps of the minor update, 0..MaxTime
MaxTrig    == 2     \* -mintrig values 1..MaxTrig
MaxHits    == 3     \* candidates in hittable
MaxApiTime == 1     \* API-sourced UpdateTime of a candidate, 0..MaxApiTime

\* type RegionDump
RegionDump(name, t) == [Name |-> name, LastMinor |-> t, LastMajor |-> t + MajorLag]

\* The dumps explored: the first k names of DumpNames, any timestamps.
Dumps ==
    UNION {{[i \in 1..k |-> RegionDump(DumpNames[i], ts[i])] : ts \in [1..k -> 0..MaxTime]} :
           k \in 1..Len(DumpNames)}

\* A canonical name no dump holds.
AbsentName == <<"z">>

CandidateNames == {Canon(DumpNames[i]) : i \in 1..Len(DumpNames)} \cup {AbsentName}

\* The candidate lists explored: sorted by the API-sourced UpdateTime of
\* the selected update class, which the pass never reads: the candidates
\* of a list share one API timestamp t.
Candidates(minor) ==
    {[i \in 1..Len(ns) |-> Hit(ns[i], "n1", "", FALSE,
                               IF minor THEN t ELSE t + MajorLag)] :
        <<ns, t>> \in SeqsUpTo(CandidateNames, MaxHits) \X (0..MaxApiTime)}

\* Lines 265-270 (and 250-254)
TimeOf(region, minor) == IF minor THEN region.LastMinor ELSE region.LastMajor

\* Lines 248-254
firstUpdateRegion == regions[1].Name
firstUpdateTime   == TimeOf(regions[1], isMinor)

\* Indexed without the exists test: the last write wins.
IndexedLastWins(index, t, name) ==
    [u \in DOMAIN index \cup {t} |-> IF u = t THEN name ELSE index[u]]

\* Lines 272-274: first write wins.
Indexed(index, t, name) ==
    IF t \in DOMAIN index THEN index ELSE [u \in DOMAIN index \cup {t} |->
                                             IF u = t THEN name ELSE index[u]]

\* Probe without the lead: the search starts at regionUpdate itself.
RECURSIVE ProbeNoLead(_, _, _, _)
ProbeNoLead(index, regionUpdate, minTrig, i) ==
    LET trigTime == regionUpdate - i
    IN IF trigTime \in DOMAIN index
       THEN [time |-> trigTime, region |-> index[trigTime], probes |-> i + 1]
       ELSE IF trigTime <= firstUpdateTime
       THEN [time |-> firstUpdateTime, region |-> firstUpdateRegion, probes |-> i + 1]
       ELSE ProbeNoLead(index, regionUpdate, minTrig, i + 1)

RECURSIVE ProbeToZero(_, _, _, _)
ProbeToZero(index, regionUpdate, minTrig, i) ==
    LET trigTime == regionUpdate - (minTrig + i)
    IN IF trigTime \in DOMAIN index
       THEN [time |-> trigTime, region |-> index[trigTime], probes |-> i + 1]
       ELSE IF trigTime <= 0
       THEN [time |-> firstUpdateTime, region |-> firstUpdateRegion, probes |-> i + 1]
       ELSE ProbeToZero(index, regionUpdate, minTrig, i + 1)

\* Lines 283-296: the probe, i = 0, 1, ...; the trigger found and the
\* number of probes made.
RECURSIVE Probe(_, _, _, _)
Probe(index, regionUpdate, minTrig, i) ==
    LET trigTime == regionUpdate - (minTrig + i)
    IN IF trigTime \in DOMAIN index
       THEN [time |-> trigTime, region |-> index[trigTime], probes |-> i + 1]
       ELSE IF trigTime <= firstUpdateTime
       THEN [time |-> firstUpdateTime, region |-> firstUpdateRegion, probes |-> i + 1]
       ELSE Probe(index, regionUpdate, minTrig, i + 1)

\* Go's bounds check on hits[k], k counted from 0.
InRange(hits, k) == 0 <= k /\ k < Len(hits)

\* LookAhead with len(hittable) for len(hittable)-1 in the guard.
LookAheadOffByOne(hits, h, canonName) ==
    IF h # Len(hits)
    THEN IF ~InRange(hits, h + 1) THEN [ok |-> FALSE, cursor |-> h]
         ELSE IF canonName = hits[h + 2].Name THEN [ok |-> TRUE, cursor |-> h + 1]
         ELSE [ok |-> TRUE, cursor |-> h]
    ELSE [ok |-> TRUE, cursor |-> h]

\* Lines 277-279: the cursor after the look-ahead on hittable[hitIndex+1];
\* ok is FALSE when that read is out of range (a run-time panic).
LookAhead(hits, h, canonName) ==
    IF h # Len(hits) - 1
    THEN IF ~InRange(hits, h + 1) THEN [ok |-> FALSE, cursor |-> h]
         ELSE IF canonName = hits[h + 2].Name THEN [ok |-> TRUE, cursor |-> h + 1]
         ELSE [ok |-> TRUE, cursor |-> h]
    ELSE [ok |-> TRUE, cursor |-> h]

\* Matched without line 282: the API-sourced UpdateTime stays.
MatchedKeepsApiTime(hits, h, index, regionUpdate, minTrig) ==
    LET trig == Probe(index, regionUpdate, minTrig, 0)
    IN [hits EXCEPT ![h + 1].TriggerTime   = trig.time,
                    ![h + 1].TriggerRegion = trig.region]

\* Lines 281-297: the match branch on hittable[h].
Matched(hits, h, index, regionUpdate, minTrig) ==
    LET trig == Probe(index, regionUpdate, minTrig, 0)
    IN [hits EXCEPT ![h + 1].UpdateTime    = regionUpdate,
                    ![h + 1].TriggerTime   = trig.time,
                    ![h + 1].TriggerRegion = trig.region]

\* Lines 261-263: every candidate is matched, break.
MatchBreak ==
    /\ mpc = "loop"
    /\ ri < Len(regions)
    /\ hitIndex = Len(hittable)
    /\ mpc' = "done"
    /\ UNCHANGED <<regions, hittable, minimumTrigger, hitIndex, updateTimes, ri, files, probes>>
    /\ UNCHANGED <<rankVars, clientVars>>

\* Lines 258-298, one iteration of the range over regions.
MatchStep ==
    /\ mpc = "loop"
    /\ ri < Len(regions)
    /\ hitIndex # Len(hittable)
    /\ LET region       == regions[ri + 1]
           canonName    == Canon(region.Name)
           regionUpdate == TimeOf(region, isMinor)
           index        == Indexed(updateTimes, regionUpdate, canonName)
           ahead        == LookAhead(hittable, hitIndex, canonName)
           h            == ahead.cursor
       IN /\ updateTimes' = index
          /\ IF ~ahead.ok \/ ~InRange(hittable, h)
             THEN /\ mpc' = "panicked"         \* index out of range
                  /\ hitIndex' = h
                  /\ UNCHANGED <<hittable, probes>>
             ELSE /\ UNCHANGED mpc
                  /\ IF canonName = hittable[h + 1].Name
                     THEN /\ hittable' = Matched(hittable, h, index, regionUpdate,
                                                 minimumTrigger)
                          /\ probes' = Probe(index, regionUpdate, minimumTrigger, 0).probes
                          /\ hitIndex' = h + 1
                     ELSE /\ hitIndex' = h
                          /\ UNCHANGED <<hittable, probes>>
    /\ ri' = ri + 1
    /\ UNCHANGED <<regions, minimumTrigger, files>>
    /\ UNCHANGED <<rankVars, clientVars>>

\* Line 298: the range over regions is exhausted.
MatchExhausted ==
    /\ mpc = "loop"
    /\ ri = Len(regions)
    /\ mpc' = "done"
    /\ UNCHANGED <<regions, hittable, minimumTrigger, hitIndex, updateTimes, ri, files, probes>>
    /\ UNCHANGED <<rankVars, clientVars>>

-----------------------------------------------------------------------------
(* main, loading the dump and writing the two files: part_000:231-256,     *)
(* 301-341                                                                 *)

\* Lines 231-256: os.ReadFile and xml.Unmarshal (a failure is log.Fatal),
\* then the locals of the matching pass.  Ds is the set of dumps
\* regions.xml may hold.
LoadDump(Ds) ==
    /\ rpc = "sorted"
    /\ mpc = "idle"
    /\ \/ /\ err' = "regions.xml"
          /\ mpc' = "fatal"
          /\ UNCHANGED regions
       \/ /\ regions' \in Ds
          /\ err' = "nil"
          /\ mpc' = "loop"
    /\ hitIndex' = 0
    /\ updateTimes' = <<>>
    /\ ri' = 0
    /\ UNCHANGED <<approvalsIn, ai, maxEndoCount, isMinor, lastInfo, rpc, lookups, queries>>
    /\ UNCHANGED <<hittable, minimumTrigger, files, probes>>
    /\ UNCHANGED clientVars

NoFile  == [made |-> FALSE, lines |-> <<>>]
NoFiles == [trigger_list |-> NoFile, raidFile |-> NoFile]

\* Lines 305-321: the lines of the two files, hits without a trigger
\* skipped; i is the position in hittable (the report numbers from 1).
RECURSIVE TriggerLines(_, _)
TriggerLines(hits, i) ==
    IF i > Len(hits) THEN <<>>
    ELSE (IF hits[i].TriggerRegion = <<>> THEN <<>> ELSE <<hits[i].TriggerRegion>>)
         \o TriggerLines(hits, i + 1)

RECURSIVE RaidLines(_, _)
RaidLines(hits, i) ==
    IF i > Len(hits) THEN <<>>
    ELSE (IF hits[i].TriggerRegion = <<>> THEN <<>>
          ELSE <<[n          |-> i,
                  region     |-> hits[i].Name,
                  sinceFirst |-> hits[i].UpdateTime - firstUpdateTime,
                  endorse    |-> IF hits[i].IsDeltip THEN hits[i].SecondNation ELSE "",
                  trigger    |-> hits[i].TriggerRegion,
                  lead       |-> hits[i].UpdateTime - hits[i].TriggerTime]>>)
         \o RaidLines(hits, i + 1)

\* Lines 301-341: the two files are created and written in turn; os.Create
\* or WriteString failing is log.Fatal with what was made so far left.
WriteFiles ==
    /\ mpc = "done"
    /\ LET trig == [made |-> TRUE, lines |-> TriggerLines(hittable, 1)]
           raid == [made |-> TRUE, lines |-> RaidLines(hittable, 1)]
           empty == [made |-> TRUE, lines |-> <<>>]
       IN \/ /\ err' = "trigger_list.txt"                  \* lines 323-326
             /\ mpc' = "fatal"
             /\ UNCHANGED files
          \/ /\ err' = "trigger_list.txt"                  \* lines 328-331
             /\ mpc' = "fatal"
             /\ files' = [files EXCEPT !.trigger_list = empty]
          \/ /\ err' = "raidFile.txt"                      \* lines 333-336
             /\ mpc' = "fatal"
             /\ files' = [files EXCEPT !.trigger_list = trig]
          \/ /\ err' = "raidFile.txt"                      \* lines 338-341
             /\ mpc' = "fatal"
             /\ files' = [trigger_list |-> trig, raidFile |-> empty]
          \/ /\ err' = "nil"
             /\ mpc' = "written"
             /\ files' = [trigger_list |-> trig, raidFile |-> raid]
    /\ UNCHANGED <<approvalsIn, ai, maxEndoCount, isMinor, lastInfo, rpc, lookups, queries>>
    /\ UNCHANGED <<regions, hittable, minimumTrigger, hitIndex, updateTimes, ri, probes>>
    /\ UNCHANGED clientVars

-----------------------------------------------------------------------------
(* The parts of main a specification does not run *)

RankIdle ==
    /\ approvalsIn = <<>>
    /\ ai = 0
    /\ maxEndoCount = 1
    /\ isMinor = FALSE
    /\ lastInfo = [region |-> <<>>, info |-> ZeroRegionInfo]
    /\ rpc = "idle"
    /\ lookups = <<>>
    /\ err = "nil"
    /\ queries = <<>>

MatchIdle ==
    /\ regions = <<>>
    /\ hittable = <<>>
    /\ minimumTrigger = 1
    /\ hitIndex = 0
    /\ updateTimes = <<>>
    /\ ri = 0
    /\ mpc = "idle"
    /\ files = NoFiles
    /\ probes = 0

ClientIdle ==
    /\ userAgent = <<>>
    /\ caller = Idle
    /\ qpc = "idle"
    /\ data = NoData
    /\ epc = "idle"
    /\ reqBody = "none"
    /\ resp = NoResp
    /\ ret = NoRet
    /\ wire = <<>>
    /\ sleeps = <<>>
    /\ qret = NoRet

-----------------------------------------------------------------------------
(* Spec: makeAPIRequest under every header combination, called by          *)
(* GetNationRegion.  SpecQuery: the three typed queries.                   *)

Init == ClientIdle /\ RankIdle /\ MatchIdle

Next ==
    \/ SetUserAgent
    \/ CallGetNationRegion
    \/ ExecEnter
    \/ DoFirst(RemainingHeaders, ResetHeaders, RetryHeaders)
    \/ DoAgain(RemainingHeaders, ResetHeaders, RetryHeaders)
    \/ Handle429
    \/ HandleOther
    \/ NationRegionReturn

Spec == Init /\ [][Next]_vars

NextQuery ==
    \/ SetUserAgent
    \/ CallGetProposalApprovals
    \/ CallGetRegioninfo
    \/ CallGetNationRegion
    \/ ExecEnter
    \/ DoFirst(FewRemaining, FewReset, FewRetry)
    \/ DoAgain(FewRemaining, FewReset, FewRetry)
    \/ Handle429
    \/ HandleOther
    \/ ProposalsFirst
    \/ ProposalsSecond
    \/ RegioninfoReturn
    \/ NationRegionReturn

SpecQuery == Init /\ [][NextQuery]_vars

(* SpecRank: the filter loop and the sort of main over every approvals     *)
(* list and flags                                                          *)

InitRank ==
    /\ ClientIdle
    /\ MatchIdle
    /\ approvalsIn \in Approvals
    /\ ai = 0
    /\ maxEndoCount \in 1..MaxEndoFlag
    /\ isMinor \in BOOLEAN
    /\ lastInfo = [region |-> <<>>, info |-> ZeroRegionInfo]
    /\ rpc = "filter"
    /\ lookups = <<>>
    /\ err = "nil"
    /\ queries = <<"GetProposalApprovals">>

NextRank == FilterStep(RegionInfos) \/ FilterDone \/ SortStep

SpecRank == InitRank /\ [][NextRank]_vars

(* SpecMatch: the matching pass of main over every dump and sorted list *)

InitMatch ==
    /\ ClientIdle
    /\ approvalsIn = <<>>
    /\ ai = 0
    /\ maxEndoCount = 1
    /\ isMinor \in BOOLEAN
    /\ lastInfo = [region |-> <<>>, info |-> ZeroRegionInfo]
    /\ rpc = "sorted"
    /\ lookups = <<>>
    /\ err = "nil"
    /\ queries = <<>>
    /\ files = NoFiles
    /\ probes = 0
    /\ regions \in Dumps
    /\ hittable \in Candidates(isMinor)
    /\ minimumTrigger \in 1..MaxTrig
    /\ hitIndex = 0
    /\ updateTimes = <<>>
    /\ ri = 0
    /\ mpc = "loop"

NextMatch == MatchBreak \/ MatchStep \/ MatchExhausted

SpecMatch == InitMatch /\ [][NextMatch]_vars

(* SpecRun: main from the approvals lookup to the two files, over a few   *)
(* region-info answers and dumps                                          *)

FewInfos == {info \in RegionInfos : info.SecondEndos = 1 /\ info.LastMinor = 1}

FewDumps == {d \in Dumps : \A i \in 1..Len(d) : d[i].LastMinor = i - 1}

InitRun ==
    /\ ClientIdle
    /\ regions = <<>>
    /\ hittable = <<>>
    /\ minimumTrigger \in 1..MaxTrig
    /\ hitIndex = 0
    /\ updateTimes = <<>>
    /\ ri = 0
    /\ mpc = "idle"
    /\ files = NoFiles
    /\ probes = 0
    /\ approvalsIn = <<>>
    /\ ai = 0
    /\ maxEndoCount \in 1..MaxEndoFlag
    /\ isMinor \in BOOLEAN
    /\ lastInfo = [region |-> <<>>, info |-> ZeroRegionInfo]
    /\ rpc = "start"
    /\ lookups = <<>>
    /\ err = "nil"
    /\ queries = <<>>

NextRun ==
    \/ GetApprovals
    \/ FilterStep(FewInfos)
    \/ FilterDone
    \/ SortStep
    \/ LoadDump(FewDumps)
    \/ MatchBreak
    \/ MatchStep
    \/ MatchExhausted
    \/ WriteFiles

SpecRun == InitRun /\ [][NextRun]_vars

-----------------------------------------------------------------------------
(* The claims *)

\* The number a header carries, read off its decimal spelling; a missing or
\* non-numeric header counts as 0.
HeaderValue(h, max) ==
    IF \E n \in 0..max : h = Itoa(n) THEN CHOOSE n \in 0..max : h = Itoa(n) ELSE 0

\* C1: once the matching pass has finished, every candidate with a trigger
\* has TriggerTime <= UpdateTime - minimumTrigger or TriggerTime equal to the
\* first record's timestamp, and never TriggerTime > UpdateTime.
C1_TriggerNeverAfter ==
    mpc = "done" =>
        \A i \in 1..Len(hittable) :
            hittable[i].TriggerRegion # <<>> =>
                /\ \/ hittable[i].TriggerTime <= hittable[i].UpdateTime - minimumTrigger
                   \/ hittable[i].TriggerTime = firstUpdateTime
                /\ hittable[i].TriggerTime <= hittable[i].UpdateTime

\* C2: when the matching pass completes, every candidate whose canonical
\* name appears in the dump has a trigger.
C2_PresentHasTrigger ==
    mpc = "done" =>
        \A i \in 1..Len(hittable) :
            (\E j \in 1..Len(regions) : Canon(regions[j].Name) = hittable[i].Name)
                => hittable[i].TriggerRegion # <<>>

\* C3: after a 429 the executor has slept at least Retry-After seconds when
\* it is about to send again, and every request it sends is identical to the
\* first one: same parameters, headers and form body.
C3_RetrySameRequest ==
    /\ \A i \in 1..Len(wire) : wire[i] = [wire[1] EXCEPT !.body = "form"]
    /\ (epc = "loop" /\ resp.status = StatusTooMany) =>
           /\ sleeps # <<>>
           /\ sleeps[Len(sleeps)].secs >= HeaderValue(resp.retryAfter, MaxRetry)

\* C4: a call of makeAPIRequest never aborts; when it ends it has returned
\* the decoded response, or a failure with the zero value.
C4_ReturnsOrFails ==
    /\ epc # "panicked"
    /\ epc = "returned" =>
           \/ ret.kind = "ok"
           \/ ret.kind = "err" /\ ret.val = <<>>

\* C5: once a non-429 response is handled, the executor has slept before
\* returning iff remaining <= 7, for floor(reset / remaining) + 1 seconds.
C5_SlowdownExact ==
    (epc \in {"returned", "panicked"} /\ resp.status \notin {0, StatusTooMany}) =>
        LET remaining == HeaderValue(resp.remaining, MaxRemaining)
            reset     == HeaderValue(resp.reset, MaxReset)
            slow      == SelectSeq(sleeps, LAMBDA z : z.why = "slowdown")
        IN IF remaining <= 7
           THEN /\ Len(slow) = 1
                /\ \E q \in 0..reset : /\ q * remaining <= reset
                                       /\ reset < (q + 1) * remaining
                                       /\ slow[1].secs = q + 1
           ELSE Len(slow) = 0

\* C6: while userAgent is empty no request goes out, makeAPIRequest returns
\* a failure, and so does each typed query.
C6_NoUserAgentNoRequest ==
    userAgent = <<>> =>
        /\ wire = <<>>
        /\ epc \in {"idle", "call", "returned"}
        /\ epc = "returned" => ret.kind = "err"
        /\ qpc = "done" => qret.kind = "err"

C6_Witness ==
    /\ userAgent = <<>>
    /\ caller.fn = "GetProposalApprovals"
    /\ qpc = "done"
    /\ qret.kind = "err"

\* C7: a response that is neither 200 nor 429, or a 200 whose body does not
\* decode, ends the call with a failure and no further request.
C7_NonSuccessIsTerminal ==
    [][(/\ epc = "got"
        /\ \/ resp.status \notin {StatusOK, StatusTooMany}
           \/ resp.status = StatusOK /\ resp.body.kind # "xml")
       => (epc' = "returned" /\ ret'.kind = "err" /\ wire' = wire)]_vars

\* strings.Join(parts, ":")
RECURSIVE JoinColon(_)
JoinColon(parts) ==
    IF Len(parts) = 1 THEN parts[1]
    ELSE parts[1] \o <<":">> \o JoinColon(Tail(parts))

\* parts is s cut at every ":".
IsSplitOf(parts, s) ==
    /\ Len(parts) >= 1
    /\ JoinColon(parts) = s
    /\ \A i \in 1..Len(parts) : \A k \in 1..Len(parts[i]) : parts[i][k] # ":"

\* C8: GetProposalApprovals queries wa=2 first; it queries wa=1 iff the
\* first query succeeded without the target id; it returns the approvals of
\* the matching proposal cut at ':', "proposal not found" when neither list
\* has the id, and the executor's failure when a query fails.
C8_ApprovalsFallback ==
    [][(/\ caller.fn = "GetProposalApprovals"
        /\ epc = "returned"
        /\ qpc \in {"first", "second"}
        /\ qpc' # qpc)
       => LET found == {k \in 1..Len(ret.val) : ret.val[k].Id = caller.arg}
          IN /\ data.wa = (IF qpc = "first" THEN "2" ELSE "1")
             /\ data.q = "proposals"
             /\ IF ret.kind = "err"
                THEN /\ qpc' = "done"
                     /\ qret'.kind = "err" /\ qret'.err = ret.err
                     /\ epc' = epc
                ELSE IF found # {}
                THEN /\ qpc' = "done"
                     /\ qret'.kind = "ok"
                     /\ \E k \in found : IsSplitOf(qret'.val, ret.val[k].Approvals)
                     /\ epc' = epc
                ELSE IF qpc = "first"
                THEN /\ qpc' = "second"
                     /\ epc' = "call"
                     /\ data' = [data EXCEPT !.wa = "1"]
                ELSE /\ qpc' = "done"
                     /\ qret'.kind = "err" /\ qret'.err = "proposal not found"
                     /\ epc' = epc]_vars

C8_Witness ==
    /\ caller.fn = "GetProposalApprovals"
    /\ qpc = "done"
    /\ data.wa = "1"
    /\ qret.kind = "ok"
    /\ Len(qret.val) = 3

\* C9: with fewer than two ranked nations GetRegioninfo returns a failure
\* and the all-zero RegionInfo; with two or more it returns the scores of
\* ranks 1 and 2, the name of rank 2, the presence of the tag "Password" and
\* both update timestamps.
C9_RegioninfoShape ==
    (caller.fn = "GetRegioninfo" /\ qpc = "done" /\ ret.kind = "ok") =>
        LET doc == ret.val
        IN IF Len(doc.Nations) < 2
           THEN /\ qret.kind = "err"
                /\ qret.val = [DelEndos |-> 0, SecondEndos |-> 0, SecondNation |-> "",
                               Password |-> FALSE, LastMajor |-> 0, LastMinor |-> 0]
           ELSE /\ qret.kind = "ok"
                /\ qret.val.DelEndos = doc.Nations[1].Endos
                /\ qret.val.SecondEndos = doc.Nations[2].Endos
                /\ qret.val.SecondNation = doc.Nations[2].Name
                /\ qret.val.Password = (\E i \in 1..Len(doc.Tags) : doc.Tags[i] = "Password")
                /\ qret.val.LastMajor = doc.LastMajor
                /\ qret.val.LastMinor = doc.LastMinor

C9_Witness ==
    /\ caller.fn = "GetRegioninfo"
    /\ qpc = "done"
    /\ ret.kind = "ok"
    /\ Len(ret.val.Nations) = 1
    /\ qret.kind = "err"

\* C10: with d = DelEndos, r = SecondEndos, p = Password, m = maxEndoCount,
\* an iteration of the filter loop appends nothing if p; else a direct hit
\* (IsDeltip false, no SecondNation) iff d < m; else an assisted hit
\* (IsDeltip true, SecondNation the runner-up) iff m <= d < m + r; else
\* nothing.
C10_Classification ==
    [][(rpc = "filter" /\ ai' = ai + 1)
       => LET d == lastInfo'.info.DelEndos
              r == lastInfo'.info.SecondEndos
              p == lastInfo'.info.Password
              m == maxEndoCount
              added == hittable'[Len(hittable')]
          IN IF ~p /\ d < m
             THEN /\ Len(hittable') = Len(hittable) + 1
                  /\ SubSeq(hittable', 1, Len(hittable)) = hittable
                  /\ ~added.IsDeltip
                  /\ added.SecondNation = ""
             ELSE IF ~p /\ m <= d /\ d < m + r
             THEN /\ Len(hittable') = Len(hittable) + 1
                  /\ SubSeq(hittable', 1, Len(hittable)) = hittable
                  /\ added.IsDeltip
                  /\ added.SecondNation = lastInfo'.info.SecondNation
             ELSE hittable' = hittable]_vars

\* (d, r, m) = (1, 1, 1), the scaled (6, 2, 5): an assisted hit was appended.
C10_Witness ==
    /\ ai >= 1
    /\ maxEndoCount = 1
    /\ lastInfo.info.DelEndos = 1
    /\ lastInfo.info.SecondEndos = 1
    /\ ~lastInfo.info.Password
    /\ hittable # <<>>
    /\ hittable[Len(hittable)].IsDeltip

\* out is in rearranged by a permutation p that keeps UpdateTime
\* non-decreasing and, when stable, keeps candidates of equal UpdateTime
\* in the order they had in in.
IsSortOf(out, in, stable) ==
    /\ Len(out) = Len(in)
    /\ \E p \in Perms(Len(in)) :
         /\ \A i \in 1..Len(in) : out[i] = in[p[i]]
         /\ \A i, j \in 1..Len(in) : i < j => out[i].UpdateTime <= out[j].UpdateTime
         /\ stable => \A i, j \in 1..Len(in) :
                         (i < j /\ out[i].UpdateTime = out[j].UpdateTime) => p[i] < p[j]

\* C11: the sort step leaves the stable ascending sort of the discovery-order
\* list by UpdateTime: a permutation of it, UpdateTime non-decreasing, and
\* candidates of equal UpdateTime in their discovery order.
C11_StableSort ==
    [][(rpc = "filtered" /\ rpc' = "sorted") => IsSortOf(hittable', hittable, TRUE)]_vars

\* The dump record an iteration of the matching loop works on, and the
\* timestamp of a record for the selected update class.
StampOf(record) == IF isMinor THEN record.LastMinor ELSE record.LastMajor
MinorStamps == [i \in 1..Len(regions) |-> regions[i].LastMinor]

\* An iteration of the matching loop that matched a candidate: the cursor
\* moved, and the candidate matched is the one just before it.
MatchingStep == mpc = "loop" /\ ri' = ri + 1 /\ hitIndex' # hitIndex

\* C12: on a match the trigger is found by probing t = update - minimumTrigger,
\* update - minimumTrigger - 1, ...: the first t in the index gives TriggerTime
\* = t and TriggerRegion = the indexed region; a probed t that is not indexed
\* and is <= the first record's timestamp gives the first record's region and
\* timestamp.
C12_BackwardProbe ==
    [][MatchingStep =>
        LET u     == StampOf(regions[ri + 1])
            first == StampOf(regions[1])
            c     == hittable'[hitIndex']
        IN \E i \in 0..u :
             /\ \A j \in 0..(i - 1) :
                  /\ (u - minimumTrigger - j) \notin DOMAIN updateTimes'
                  /\ (u - minimumTrigger - j) > first
             /\ LET t == u - minimumTrigger - i
                IN \/ /\ t \in DOMAIN updateTimes'
                      /\ c.TriggerTime = t
                      /\ c.TriggerRegion = updateTimes'[t]
                   \/ /\ t \notin DOMAIN updateTimes'
                      /\ t <= first
                      /\ c.TriggerTime = first
                      /\ c.TriggerRegion = regions[1].Name]_vars

\* The dump [A b@0, c@1, D@2] with minimumTrigger = 1, the scaled
\* [A@1000, B@1004, C@1010]: D got c@1 from the index (2 - 1 = 1) and
\* A b, with nothing before it, the first record.
C12_Witness ==
    /\ mpc = "done"
    /\ isMinor
    /\ minimumTrigger = 1
    /\ MinorStamps = <<0, 1, 2>>
    /\ Len(hittable) = 3
    /\ hittable[3].Name = <<"d">>
    /\ hittable[3].TriggerRegion = <<"c">>
    /\ hittable[3].TriggerTime = 1
    /\ hittable[1].TriggerRegion = <<"A", " ", "b">>

\* C13: the trigger region of a candidate that has one is a region other
\* than the candidate and stands strictly before the candidate's own record
\* in the dump.
C13_TriggerIsEarlier ==
    \A i \in 1..Len(hittable) :
        hittable[i].TriggerRegion # <<>> =>
            \E r \in 1..Len(regions) :
                /\ Canon(regions[r].Name) = hittable[i].Name
                /\ Canon(hittable[i].TriggerRegion) # hittable[i].Name
                /\ \E j \in 1..(r - 1) :
                     Canon(regions[j].Name) = Canon(hittable[i].TriggerRegion)

\* C14: within a run GetRegioninfo is called at most once for a region,
\* whatever regions the endorsers resolve to, and no two candidates have
\* the same canonical region name.
C14_QueriedOnce ==
    /\ \A i, j \in 1..Len(lookups) : lookups[i] = lookups[j] => i = j
    /\ \A i, j \in 1..Len(hittable) : hittable[i].Name = hittable[j].Name => i = j

\* One of the three typed queries returned a failure to main.
QueryFailed == err \in {"GetProposalApprovals", "GetNationRegion", "GetRegioninfo"}

\* C16: when a query returns a failure the run is over at that point: the
\* failing query is the last request, nothing was or is matched, no file is
\* written, and the program takes no further step.
C16_FailureAborts ==
    [][/\ ~QueryFailed
       /\ QueryFailed' =>
            /\ rpc' = "fatal"
            /\ queries'[Len(queries')] = err'
            /\ mpc' = "idle"
            /\ files' = NoFiles
            /\ \A i \in 1..Len(hittable') : hittable'[i].TriggerRegion = <<>>]_vars

\* GetRegioninfo failed for the second endorser after the first had given a
\* candidate.
C16_Witness ==
    /\ err = "GetRegioninfo"
    /\ rpc = "fatal"
    /\ Len(lookups) = 2
    /\ Len(hittable) = 1

\* The candidate's canonical name is the name of some record of the dump.
InDump(hit) == \E j \in 1..Len(regions) : Canon(regions[j].Name) = hit.Name

\* C17: when the pass has finished, a candidate absent from the dump has no
\* trigger, and every candidate after it that is in the dump has one.
C17_SkipsOrphan ==
    mpc = "done" =>
        \A i \in 1..Len(hittable) :
            ~InDump(hittable[i]) =>
                /\ hittable[i].TriggerRegion = <<>>
                /\ \A j \in (i + 1)..Len(hittable) :
                     InDump(hittable[j]) => hittable[j].TriggerRegion # <<>>

\* The records the matching loop has worked on whose timestamp is t.
Processed(t) == {j \in 1..ri : StampOf(regions[j]) = t}

\* C18: at every point of the pass the index holds exactly the timestamps
\* of the records processed so far, each with the canonical name of the
\* earliest processed record that has it.
C18_FirstWriteWins ==
    /\ DOMAIN updateTimes = {StampOf(regions[j]) : j \in 1..ri}
    /\ \A t \in DOMAIN updateTimes :
         \E j \in Processed(t) :
             /\ \A k \in Processed(t) : j <= k
             /\ updateTimes[t] = Canon(regions[j].Name)

\* Two processed records share a timestamp.
C18_Witness ==
    /\ ri >= 2
    /\ StampOf(regions[1]) = StampOf(regions[2])
    /\ updateTimes[StampOf(regions[2])] = Canon(regions[1].Name)

\* C19: an iteration that matches a candidate sets its UpdateTime to the
\* record's timestamp and leaves its Name, Delegate, SecondNation and
\* IsDeltip and every other candidate as they were; an iteration that
\* matches none leaves hittable as it was.
C19_MatchFrame ==
    [][mpc = "loop" =>
        /\ Len(hittable') = Len(hittable)
        /\ IF hitIndex' # hitIndex
           THEN /\ hittable'[hitIndex'].UpdateTime = StampOf(regions[ri + 1])
                /\ hittable'[hitIndex'].Name = hittable[hitIndex'].Name
                /\ hittable'[hitIndex'].Delegate = hittable[hitIndex'].Delegate
                /\ hittable'[hitIndex'].SecondNation = hittable[hitIndex'].SecondNation
                /\ hittable'[hitIndex'].IsDeltip = hittable[hitIndex'].IsDeltip
                /\ \A i \in 1..Len(hittable) :
                     i # hitIndex' => hittable'[i] = hittable[i]
           ELSE hittable' = hittable]_vars

\* The first candidate was matched and carries a dump timestamp no API
\* answer has; the second was never matched and keeps its API timestamp.
C19_Witness ==
    /\ mpc = "done"
    /\ isMinor
    /\ Len(hittable) = 2
    /\ hittable[1].TriggerRegion # <<>>
    /\ hittable[1].UpdateTime > MaxApiTime
    /\ hittable[2].TriggerRegion = <<>>
    /\ hittable[2].UpdateTime = MaxApiTime

\* C20: the cursor stays within 0..len(hittable) and never decreases, no
\* index expression is out of range, a candidate's trigger fields are
\* written at most once, and the pass goes on while the cursor is below
\* len(hittable) and records remain, and stops as soon as either ends.
C20_CursorInvariant ==
    [][mpc = "loop" =>
        /\ mpc' # "panicked"
        /\ 0 <= hitIndex' /\ hitIndex' <= Len(hittable')
        /\ hitIndex' >= hitIndex
        /\ \A i \in 1..Len(hittable) :
             hittable[i].TriggerRegion # <<>> =>
                 /\ hittable'[i].TriggerRegion = hittable[i].TriggerRegion
                 /\ hittable'[i].TriggerTime = hittable[i].TriggerTime
        /\ (mpc' = "done") <=> (hitIndex = Len(hittable) \/ ri = Len(regions))]_vars

\* Both candidates were matched with a record of the dump left: the pass
\* stopped at the break.
C20_Witness ==
    /\ mpc = "done"
    /\ Len(hittable) = 2
    /\ hitIndex = 2
    /\ ri = 2
    /\ Len(regions) = 3

\* C21: a call whose request the server answered with a non-429 response,
\* after any number of 429 responses, has returned once that response is
\* handled, and with the decoded result when the response is a decodable 200.
C21_AnsweredCallReturns ==
    (epc \in {"returned", "panicked"} /\ resp.status \notin {0, StatusTooMany}) =>
        /\ epc = "returned"
        /\ (resp.status = StatusOK /\ resp.body.kind = "xml") =>
               ret = RetOk(resp.body.doc)

\* C22: the probe of a matched candidate stops after at least one and at
\* most max(0, update - minimumTrigger - firstUpdateTime) + 1 turns, the
\* trigger it assigned is an indexed timestamp with its region or the first
\* record's timestamp with the first record's name, and the cursor ends one
\* past the place where the match found it.
C22_ProbeTerminates ==
    [][MatchingStep =>
        LET update == StampOf(regions[ri + 1])
            first  == StampOf(regions[1])
            gap    == update - minimumTrigger - first
            most   == (IF gap > 0 THEN gap ELSE 0) + 1
            name   == Canon(regions[ri + 1].Name)
            at     == LookAhead(hittable, hitIndex, name).cursor   \* where line 281 finds it
            c      == hittable'[at + 1]
        IN /\ 1 <= probes' /\ probes' <= most
           /\ c.Name = name
           /\ \/ /\ c.TriggerTime \in DOMAIN updateTimes'
                 /\ c.TriggerRegion = updateTimes'[c.TriggerTime]
              \/ /\ c.TriggerTime = first
                 /\ c.TriggerRegion = regions[1].Name
           /\ hitIndex' = at + 1]_vars

\* The last match took two turns, the most its gap allows: nothing was
\* indexed one second before the update and the second probe ended it.
C22_Witness ==
    /\ mpc = "done"
    /\ minimumTrigger = 1
    /\ hitIndex >= 1
    /\ hittable[hitIndex].TriggerRegion # <<>>
    /\ hittable[hitIndex].UpdateTime - hittable[hitIndex].TriggerTime = 2
    /\ hittable[hitIndex].UpdateTime - firstUpdateTime = 2
    /\ probes = 2

=============================================================================
